---- MODULE Spec2Model ----
(***************************************************************************)
(* A model of twodict.TwoWayOrderedDict: a dict subclass that stores every *)
(* pair in both directions in the inherited dict storage and keeps the     *)
(* insertion order of the keys in a circular doubly linked list (_items)   *)
(* indexed by _items_map.                                                  *)
(***************************************************************************)
EXTENDS Integers, Sequences, FiniteSets, TLC

\* ---------------------------------------------------------------- bounds
\* Number of distinct hashable elements the calls draw keys and values from.
NumElems == 4
\* Number of elements the items of an update() source are drawn from.
NumSrcElems == 2
\* Longest source handed to update().
MaxSrcLen == 2

\* -------------------------------------------------------------- elements
\* Python's None: an ordinary hashable element, and the key field of the
\* sentinel node.
None == 0
Elems == 0 .. (NumElems - 1)
SrcElems == 0 .. (NumSrcElems - 1)
\* The default-parameter marker object of pop(); it is no element.
RANDOM_OBJECT == 0 - 2

\* ------------------------------------------------------- the linked list
\* Indexes into a node [prev, key, next].
PREV == 0
KEY == 1
NEXT == 2
\* The address of the sentinel node self._items.  A node holding key k is
\* addressed by k: _items_map holds at most one live node per key and an
\* unlinked node is garbage.
ItemsRef == 0 - 1
Node(prev, key, next) == (PREV :> prev) @@ (KEY :> key) @@ (NEXT :> next)
\* self._items = item = []; self._items += [item, None, item]
EmptyItems == (ItemsRef :> Node(ItemsRef, None, ItemsRef))
\* The function f without the argument k (removal of one dict slot).
Without(f, k) == [x \in (DOMAIN f) \ {k} |-> f[x]]
\* The empty dict.
EmptyDict == [x \in {} |-> None]

\* ------------------------------------------------------ container states
\* A container: data is the inherited dict storage, items the heap of list
\* nodes (sentinel included), items_map the ordering index (key -> address
\* of its node), exc the exception that left the running method, if any.
NoExc == "none"
NewDict == [data |-> EmptyDict, items |-> EmptyItems, items_map |-> EmptyDict,
            exc |-> NoExc]
Raise(s, e) == IF s.exc = NoExc THEN [s EXCEPT !.exc = e] ELSE s

\* dict.__contains__(self, key)
Contains(s, key) == key \in DOMAIN s.data
\* dict.__delitem__(self, key)
dict_delitem(s, key) ==
    IF s.exc # NoExc THEN s
    ELSE IF key \notin DOMAIN s.data THEN Raise(s, "KeyError")
    ELSE [s EXCEPT !.data = Without(s.data, key)]
\* dict.__setitem__(self, key, value)
dict_setitem(s, key, value) ==
    IF s.exc # NoExc THEN s
    ELSE [s EXCEPT !.data = [x \in (DOMAIN s.data) \cup {key} |->
                                IF x = key THEN value ELSE s.data[x]]]

\* A slip of _remove_mapped_key: the node behind the unlinked one keeps its
\* PREV link.
remove_mapped_key_half(s, key) ==
    IF s.exc # NoExc THEN s
    ELSE IF key \notin DOMAIN s.items_map THEN Raise(s, "KeyError")
    ELSE LET ref == s.items_map[key]
             prev == s.items[ref][PREV]
             next == s.items[ref][NEXT]
             h0 == Without(s.items, ref)
             h1 == [h0 EXCEPT ![prev][NEXT] = next]
         IN [s EXCEPT !.items_map = Without(s.items_map, key), !.items = h1]

\* _remove_mapped_key: pop the node of key from _items_map and unlink it.
remove_mapped_key(s, key) ==
    IF s.exc # NoExc THEN s
    ELSE IF key \notin DOMAIN s.items_map THEN Raise(s, "KeyError")
    ELSE LET ref == s.items_map[key]
             prev == s.items[ref][PREV]
             next == s.items[ref][NEXT]
             h0 == Without(s.items, ref)
             h1 == [h0 EXCEPT ![prev][NEXT] = next]
             h2 == [h1 EXCEPT ![next][PREV] = prev]
         IN [s EXCEPT !.items_map = Without(s.items_map, key), !.items = h2]

\* A slip of append_key: the new node is linked after the sentinel, at the
\* front of the list.
append_front(s, key) ==
    IF s.exc # NoExc THEN s
    ELSE LET first == s.items[ItemsRef][NEXT]
             h0 == [x \in (DOMAIN s.items) \cup {key} |->
                       IF x = key THEN Node(ItemsRef, key, first) ELSE s.items[x]]
             h1 == [h0 EXCEPT ![first][PREV] = key]
             h2 == [h1 EXCEPT ![ItemsRef][NEXT] = key]
         IN [s EXCEPT !.items = h2,
                      !.items_map = [x \in (DOMAIN s.items_map) \cup {key} |->
                                        IF x = key THEN key ELSE s.items_map[x]]]

\* The append of __setitem__ (lines 128-129): link a new node for key
\* before the sentinel and index it.
append_key(s, key) ==
    IF s.exc # NoExc THEN s
    ELSE LET last == s.items[ItemsRef][PREV]
             h0 == [x \in (DOMAIN s.items) \cup {key} |->
                       IF x = key THEN Node(last, key, ItemsRef) ELSE s.items[x]]
             \* last[NEXT] = self._items[PREV] = self._items_map[key] = node,
             \* assigned left to right
             h1 == [h0 EXCEPT ![last][NEXT] = key]
             h2 == [h1 EXCEPT ![ItemsRef][PREV] = key]
         IN [s EXCEPT !.items = h2,
                      !.items_map = [x \in (DOMAIN s.items_map) \cup {key} |->
                                        IF x = key THEN key ELSE s.items_map[x]]]

\* `if self[x] in self._items_map [and cond]: self._remove_mapped_key(self[x])`
\* self[x] raises KeyError when x is no slot of the dict.
remove_partner_if_mapped(s, x, cond) ==
    IF s.exc # NoExc THEN s
    ELSE IF x \notin DOMAIN s.data THEN Raise(s, "KeyError")
    ELSE IF s.data[x] \in DOMAIN s.items_map /\ cond
         THEN remove_mapped_key(s, s.data[x])
         ELSE s

\* A slip of delete_partner: retracts the slot of x itself, not of its partner.
delete_own_slot(s, x) ==
    IF s.exc # NoExc THEN s
    ELSE IF x \notin DOMAIN s.data THEN Raise(s, "KeyError")
    ELSE dict_delitem(s, x)

\* `dict.__delitem__(self, self[x])`
delete_partner(s, x) ==
    IF s.exc # NoExc THEN s
    ELSE IF x \notin DOMAIN s.data THEN Raise(s, "KeyError")
    ELSE dict_delitem(s, s.data[x])

\* A slip of retract_key: the entry of key itself is unlinked too, so that
\* every assignment moves its key to the end.
retract_key_moves(s, key) ==
    IF Contains(s, key)
    THEN LET a == delete_partner(
                      remove_partner_if_mapped(s, key, key # s.data[key]), key)
         IN IF a.exc = NoExc /\ key \in DOMAIN a.items_map
            THEN remove_mapped_key(a, key) ELSE a
    ELSE s

\* __setitem__, `if key in self:` (lines 101-108): unlink the partner of key
\* when it holds the ordering entry, then retract the partner's slot.
retract_key(s, key) ==
    IF Contains(s, key)
    THEN delete_partner(remove_partner_if_mapped(s, key, key # s.data[key]), key)
    ELSE s

\* A slip of retract_value: the ordering entry of value is left in the list.
retract_value_keeps_entry(s, key, value) ==
    IF s.exc = NoExc /\ Contains(s, value)
    THEN LET b == remove_partner_if_mapped(s, value, TRUE)
         IN IF b.exc # NoExc THEN b
            ELSE IF b.data[value] \in DOMAIN b.data
                 THEN delete_partner(b, value) ELSE b
    ELSE s

\* A slip of retract_value: the slot of the old partner of value is deleted
\* without the test that it is still there.
retract_value_unguarded(s, key, value) ==
    IF s.exc = NoExc /\ Contains(s, value)
    THEN LET a == IF value \in DOMAIN s.items_map /\ key # value
                  THEN remove_mapped_key(s, value) ELSE s
             b == remove_partner_if_mapped(a, value, TRUE)
         IN delete_partner(b, value)
    ELSE s

\* A slip of retract_value: the slot of the old partner of value is left.
retract_value_keeps_partner(s, key, value) ==
    IF s.exc = NoExc /\ Contains(s, value)
    THEN LET a == IF value \in DOMAIN s.items_map /\ key # value
                  THEN remove_mapped_key(s, value) ELSE s
         IN remove_partner_if_mapped(a, value, TRUE)
    ELSE s

\* __setitem__, `if value in self:` (lines 110-125): unlink value and its
\* partner, then retract the partner's slot if it is still there.
retract_value(s, key, value) ==
    IF s.exc = NoExc /\ Contains(s, value)
    THEN LET a == IF value \in DOMAIN s.items_map /\ key # value
                  THEN remove_mapped_key(s, value) ELSE s
             b == remove_partner_if_mapped(a, value, TRUE)
         IN IF b.exc # NoExc THEN b
            ELSE IF b.data[value] \in DOMAIN b.data
                 THEN delete_partner(b, value) ELSE b
    ELSE s

\* A slip of append_if_new: a key that has an entry is moved to the end.
append_if_new_moves(s, key) ==
    IF s.exc # NoExc THEN s
    ELSE IF key \in DOMAIN s.items_map
         THEN append_key(remove_mapped_key(s, key), key)
         ELSE append_key(s, key)

\* __setitem__, `if key not in self._items_map:` (lines 127-129)
append_if_new(s, key) ==
    IF s.exc = NoExc /\ key \notin DOMAIN s.items_map
    THEN append_key(s, key) ELSE s

\* TwoWayOrderedDict.__setitem__
setitem(s, key, value) ==
    LET s3 == append_if_new(retract_value(retract_key(s, key), key, value), key)
    IN dict_setitem(dict_setitem(s3, key, value), value, key)

\* A slip of delitem: the slot of key is deleted without the test that it
\* is still there.
delitem_unguarded(s, key) ==
    LET s1 == remove_partner_if_mapped(s, key, TRUE)
        s2 == IF s1.exc = NoExc /\ key \in DOMAIN s1.items_map
              THEN remove_mapped_key(s1, key) ELSE s1
        s3 == delete_partner(s2, key)
    IN dict_delitem(s3, key)

\* A slip of delitem: only the entry of the given element is unlinked, not
\* the one its partner may hold.
delitem_by_key_only(s, key) ==
    LET s1 == IF ~Contains(s, key) THEN Raise(s, "KeyError") ELSE s
        s2 == IF s1.exc = NoExc /\ key \in DOMAIN s1.items_map
              THEN remove_mapped_key(s1, key) ELSE s1
        s3 == delete_partner(s2, key)
    IN IF s3.exc = NoExc /\ Contains(s3, key) THEN dict_delitem(s3, key) ELSE s3

\* TwoWayOrderedDict.__delitem__
delitem(s, key) ==
    LET s1 == remove_partner_if_mapped(s, key, TRUE)
        s2 == IF s1.exc = NoExc /\ key \in DOMAIN s1.items_map
              THEN remove_mapped_key(s1, key) ELSE s1
        s3 == delete_partner(s2, key)
    IN IF s3.exc = NoExc /\ Contains(s3, key) THEN dict_delitem(s3, key) ELSE s3

\* A slip of len: the length the inherited dict has, its number of slots.
len_of_slots(s) == Cardinality(DOMAIN s.data)

\* TwoWayOrderedDict.__len__
len(s) == Cardinality(DOMAIN s.items_map)

\* The keys a traversal from node ref along field dir yields before it is
\* back at the sentinel; fuel bounds the walk by the number of nodes.
RECURSIVE walk(_, _, _, _)
walk(s, ref, dir, fuel) ==
    IF ref = ItemsRef \/ fuel = 0 \/ ref \notin DOMAIN s.items THEN <<>>
    ELSE <<s.items[ref][KEY]>> \o walk(s, s.items[ref][dir], dir, fuel - 1)
\* TwoWayOrderedDict.__iter__
iter(s) == walk(s, s.items[ItemsRef][NEXT], NEXT, Cardinality(DOMAIN s.items))
\* A slip of reversed: the list is walked along its NEXT links.
reversed_forward(s) == walk(s, s.items[ItemsRef][NEXT], NEXT, Cardinality(DOMAIN s.items))
\* TwoWayOrderedDict.__reversed__
reversed(s) == walk(s, s.items[ItemsRef][PREV], PREV, Cardinality(DOMAIN s.items))
\* DictItemsView._get_items: [(key, self.__data[key]) for key in self.__data]
get_items(s) == [i \in 1 .. Len(iter(s)) |-> <<iter(s)[i], s.data[iter(s)[i]]>>]

\* A slip of pop: the KeyError is raised again whatever default is.
pop_ignores_default(s, key, default) ==
    LET tried == IF Contains(s, key) THEN delitem(s, key) ELSE Raise(s, "KeyError")
    IN IF tried.exc = "KeyError"
       THEN [s |-> tried, value |-> None]
       ELSE [s |-> tried, value |-> s.data[key]]

\* TwoWayOrderedDict.pop; a method's outcome is [s |-> container, value |-> result]
pop(s, key, default) ==
    LET \* try: value = self[key]; del self[key]
        tried == IF Contains(s, key) THEN delitem(s, key) ELSE Raise(s, "KeyError")
    IN IF tried.exc = "KeyError"
       THEN \* except KeyError as error:
            IF default = RANDOM_OBJECT
            THEN [s |-> tried, value |-> None]
            ELSE [s |-> [tried EXCEPT !.exc = NoExc], value |-> default]
       ELSE [s |-> tried, value |-> s.data[key]]

\* A slip of popitem: the item at the end is returned and left in place.
popitem_peek(s, last) ==
    IF len(s) = 0
    THEN [s |-> Raise(s, "KeyError"), value |-> None]
    ELSE LET ref == IF last THEN s.items[ItemsRef][PREV] ELSE s.items[ItemsRef][NEXT]
             key == s.items[ref][KEY]
         IN [s |-> s, value |-> <<key, s.data[key]>>]

\* A slip of popitem: the two ends of the list are taken for each other.
popitem_swapped(s, last) ==
    IF len(s) = 0
    THEN [s |-> Raise(s, "KeyError"), value |-> None]
    ELSE LET ref == IF last THEN s.items[ItemsRef][NEXT] ELSE s.items[ItemsRef][PREV]
             key == s.items[ref][KEY]
             popped == pop(s, key, RANDOM_OBJECT)
         IN [s |-> popped.s, value |-> <<key, popped.value>>]

\* TwoWayOrderedDict.popitem
popitem(s, last) ==
    IF len(s) = 0   \* `if not self` is bool(self), that is __len__() == 0
    THEN [s |-> Raise(s, "KeyError"), value |-> None]
    ELSE LET ref == IF last THEN s.items[ItemsRef][PREV] ELSE s.items[ItemsRef][NEXT]
             key == s.items[ref][KEY]
             popped == pop(s, key, RANDOM_OBJECT)
         IN [s |-> popped.s, value |-> <<key, popped.value>>]

\* A slip of setdefault: default is assigned whether key is there or not.
setdefault_overwrites(s, key, default) ==
    [s |-> setitem(s, key, default), value |-> default]

\* TwoWayOrderedDict.setdefault
setdefault(s, key, default) ==
    IF Contains(s, key)
    THEN [s |-> s, value |-> s.data[key]]
    ELSE [s |-> setitem(s, key, default), value |-> default]

\* A slip of load_items: the two elements of each item are assigned the
\* other way round.
RECURSIVE load_items_swapped(_, _, _)
load_items_swapped(s, item, i) ==
    IF s.exc # NoExc \/ i > Len(item) THEN s
    ELSE IF Len(item[i]) # 2 THEN Raise(s, "ValueError")
    ELSE load_items_swapped(setitem(s, item[i][2], item[i][1]), item, i + 1)

\* `for key, value in item: self[key] = value` from position i of item on;
\* an element that is no 2-tuple cannot be unpacked.
RECURSIVE load_items(_, _, _)
load_items(s, item, i) ==
    IF s.exc # NoExc \/ i > Len(item) THEN s
    ELSE IF Len(item[i]) # 2 THEN Raise(s, "ValueError")
    ELSE load_items(setitem(s, item[i][1], item[i][2]), item, i + 1)

\* `for item in args: ...` from position i of args on
RECURSIVE load_args(_, _, _)
load_args(s, args, i) ==
    IF s.exc # NoExc \/ i > Len(args) THEN s
    ELSE load_args(load_items(s, args[i], 1), args, i + 1)

\* TwoWayOrderedDict._load; kwargs is the sequence kwargs.items() yields
load(s, args, kwargs) == load_items(load_args(s, args, 1), kwargs, 1)

\* TwoWayOrderedDict.update
update(s, args, kwargs) == load(s, args, kwargs)

\* A slip of clear: the inherited storage is not emptied.
clear_keeps_slots(s) == [s EXCEPT !.items = EmptyItems, !.items_map = EmptyDict]

\* A slip of clear: the list and its index are not reset.
clear_keeps_order(s) == [s EXCEPT !.data = EmptyDict]

\* TwoWayOrderedDict.clear
clear(s) == [s EXCEPT !.items = EmptyItems, !.items_map = EmptyDict,
                      !.data = EmptyDict]

\* TwoWayOrderedDict.__init__: a new container loaded from args and kwargs
init(args, kwargs) == load(NewDict, args, kwargs)

\* What `for key, value in item` is handed when item is a TwoWayOrderedDict:
\* `type(item) == dict` is false for the subclass, so item is iterated as it
\* is and yields its keys. A key is one element where a (key, value) tuple is
\* expected: <<k>>, which load_items cannot unpack.
iterated(other) == [i \in 1 .. Len(iter(other)) |-> <<iter(other)[i]>>]

\* DictKeysView: __iter__ is KeysView's `for key in self._mapping`,
\* __contains__ is KeysView's `key in self._mapping`, the dict's own test.
keys_iter(s) == iter(s)
keys_contains(s, x) == Contains(s, x)

\* DictValuesView: __iter__ is ValuesView's `self._mapping[key] for key in
\* self._mapping`, __contains__ compares value with each of them.
values_iter(s) == [i \in 1 .. Len(iter(s)) |-> s.data[iter(s)[i]]]
values_contains(s, x) == \E i \in 1 .. Len(iter(s)) : s.data[iter(s)[i]] = x

\* DictItemsView: __iter__ is ItemsView's `(key, self._mapping[key]) for key
\* in self._mapping`, __contains__ is `item in self._get_items()`.
items_iter(s) == [i \in 1 .. Len(iter(s)) |-> <<iter(s)[i], s.data[iter(s)[i]]>>]
items_contains(s, item) == \E i \in 1 .. Len(get_items(s)) : get_items(s)[i] = item

\* TwoWayOrderedDict.__eq__ of two containers: `self.items() == other.items()`
\* is the comparison the views inherit from Set, `len(self) == len(other)` and
\* every element of self contained in other.
eq(s, other) ==
    /\ len(s) = len(other)
    /\ \A i \in 1 .. Len(items_iter(s)) : items_contains(other, items_iter(s)[i])

\* TwoWayOrderedDict.__ne__
ne(s, other) == ~eq(s, other)

\* A slip of copy: the items are handed over last first.
copy_reversed(s) ==
    init(<<[i \in 1 .. Len(items_iter(s)) |->
              items_iter(s)[Len(items_iter(s)) + 1 - i]]>>, <<>>)

\* TwoWayOrderedDict.copy: self.__class__(self.items())
copy(s) == init(<<items_iter(s)>>, <<>>)

\* ------------------------------------------------------------- the state
VARIABLES
    data,        \* the inherited dict storage: element -> partner
    items,       \* self._items: the nodes of the circular list, by address
    items_map,   \* self._items_map: key -> address of its node
    op,          \* the call that just returned (its name and arguments), or
                 \* "idle" once the caller has taken its outcome
    ret,         \* its outcome: the exception raised, the value returned
    pre,         \* the container as it was when the call was made
    origin       \* while the container is empty: the call that emptied it

vars == <<data, items, items_map, op, ret, pre, origin>>

\* The container the next call acts on.
Self == [data |-> data, items |-> items, items_map |-> items_map, exc |-> NoExc]

Call(name, key, value, last, args) ==
    [name |-> name, key |-> key, value |-> value, last |-> last, args |-> args]

\* TwoWayOrderedDict.__init__ without arguments
Init ==
    /\ data = NewDict.data
    /\ items = NewDict.items
    /\ items_map = NewDict.items_map
    /\ op = Call("init", None, None, TRUE, <<>>)
    /\ ret = [exc |-> NoExc, value |-> None]
    /\ pre = NewDict
    /\ origin = "init"

\* The caller is between two calls.
Idle == op.name = "idle"

\* The call `call` ran on Self and left container s, returning value.
Return(call, s, value) ==
    /\ data' = s.data
    /\ items' = s.items
    /\ items_map' = s.items_map
    /\ op' = call
    /\ ret' = [exc |-> s.exc, value |-> value]
    /\ pre' = Self
    /\ origin' = IF DOMAIN s.data # {} \/ DOMAIN s.items_map # {} THEN "nonempty"
                 ELSE IF call.name # "clear" /\ DOMAIN data = {} /\ DOMAIN items_map = {}
                      THEN origin
                      ELSE call.name

\* d[key] = value
SetItem ==
    /\ Idle
    /\ \E key \in Elems, value \in Elems :
           Return(Call("setitem", key, value, TRUE, <<>>), setitem(Self, key, value), None)

\* del d[key]
DelItem ==
    /\ Idle
    /\ \E key \in Elems :
           Return(Call("delitem", key, None, TRUE, <<>>), delitem(Self, key), None)

\* d.pop(key) and d.pop(key, default)
Pop ==
    /\ Idle
    /\ \E key \in Elems, default \in Elems \cup {RANDOM_OBJECT} :
           LET r == pop(Self, key, default)
           IN Return(Call("pop", key, default, TRUE, <<>>), r.s, r.value)

\* d.popitem(last)
PopItem ==
    /\ Idle
    /\ \E last \in BOOLEAN :
           LET r == popitem(Self, last)
           IN Return(Call("popitem", None, None, last, <<>>), r.s, r.value)

\* d.setdefault(key, default)
SetDefault ==
    /\ Idle
    /\ \E key \in Elems, default \in Elems :
           LET r == setdefault(Self, key, default)
           IN Return(Call("setdefault", key, default, TRUE, <<>>), r.s, r.value)

\* The ordered sources update() is handed: lists of (key, value) tuples.
Pairs == SrcElems \X SrcElems
Sources == UNION {[1 .. n -> Pairs] : n \in 0 .. MaxSrcLen}

\* d.update(source) with one ordered source
Update ==
    /\ Idle
    /\ \E source \in Sources :
           Return(Call("update", None, None, TRUE, <<source>>),
                  update(Self, <<source>>, <<>>), None)

\* d.clear()
Clear ==
    /\ Idle
    /\ Return(Call("clear", None, None, TRUE, <<>>), clear(Self), None)

\* The caller takes the outcome of the call and goes on.
Done ==
    /\ ~Idle
    /\ op' = Call("idle", None, None, TRUE, <<>>)
    /\ ret' = [exc |-> NoExc, value |-> None]
    /\ pre' = Self
    /\ UNCHANGED <<data, items, items_map, origin>>

\* The calls on one container, update() apart.
Next ==
    \/ Done
    \/ SetItem
    \/ DelItem
    \/ Pop
    \/ PopItem
    \/ SetDefault
    \/ Clear

Spec == Init /\ [][Next]_vars

\* The same calls together with update().
NextUpdate ==
    \/ Next
    \/ Update

SpecUpdate == Init /\ [][NextUpdate]_vars

\* d.update(first, second): two positional sources
UpdateArgs ==
    /\ Idle
    /\ \E first \in Sources, second \in Sources :
           Return(Call("update", None, None, TRUE, <<first, second>>),
                  update(Self, <<first, second>>, <<>>), None)

\* d.update(other) with other = TwoWayOrderedDict(source)
UpdateOther ==
    /\ Idle
    /\ \E source \in Sources :
           Return(Call("update_other", None, None, TRUE, <<source>>),
                  update(Self, <<iterated(init(<<source>>, <<>>))>>, <<>>), None)

\* The calls of Next together with update() on other arguments than one
\* list of tuples.
NextUpdateArgs ==
    \/ Next
    \/ UpdateArgs
    \/ UpdateOther

SpecUpdateArgs == Init /\ [][NextUpdateArgs]_vars

\* d.copy(); the value returned is the new container
Copy ==
    /\ Idle
    /\ Return(Call("copy", None, None, TRUE, <<>>), Self, copy(Self))

\* The calls of Next together with copy().
NextCopy ==
    \/ Next
    \/ Copy

SpecCopy == Init /\ [][NextCopy]_vars

\* d == other with other = TwoWayOrderedDict(source)
Eq ==
    /\ Idle
    /\ \E source \in Sources :
           Return(Call("eq", None, None, TRUE, <<source>>),
                  Self, eq(Self, init(<<source>>, <<>>)))

\* The calls of Next together with the comparison.
NextEq ==
    \/ Next
    \/ Eq

SpecEq == Init /\ [][NextEq]_vars

\* The sources with an element that is no (key, value) tuple: a single
\* element <<x>> stands where a tuple is expected.
SourceItems == Pairs \cup {<<x>> : x \in SrcElems}
BadSources == UNION {[1 .. n -> SourceItems] : n \in 1 .. MaxSrcLen} \ Sources

\* d.update(source) with a source that holds such an element
UpdateBad ==
    /\ Idle
    /\ \E source \in BadSources :
           Return(Call("update_bad", None, None, TRUE, <<source>>),
                  update(Self, <<source>>, <<>>), None)

\* The calls of Next together with update() on such sources.
NextUpdateBad ==
    \/ Next
    \/ UpdateBad

SpecUpdateBad == Init /\ [][NextUpdateBad]_vars

\* The caller runs `while d: d.popitem()`: op.name is "drain" from the first
\* popitem of the loop until the loop has ended.
Draining == op.name = "drain"

\* The loop begins or is running, and `while d` finds the container
\* non-empty.
LoopGoesOn ==
    /\ Idle \/ Draining
    /\ len(Self) # 0

\* One pass of the loop: `while d` found the container non-empty (bool(d) is
\* __len__() != 0) and popitem() is called; the loop drops the item it
\* returns.
DrainStep ==
    /\ LoopGoesOn
    /\ Return(Call("drain", None, None, TRUE, <<>>), popitem(Self, TRUE).s, None)

\* `while d` found the container empty: the loop has ended.
DrainEnd ==
    /\ Draining
    /\ len(Self) = 0
    /\ Done

\* The other calls, made outside the loop; popitem() is called by the loop
\* alone, which takes the container through the states popitem() reaches.
Calls ==
    /\ ~Draining
    /\ \/ Done
       \/ SetItem
       \/ DelItem
       \/ Pop
       \/ SetDefault
       \/ Clear

\* The calls and the loop, which no other call interrupts.
NextDrain ==
    \/ Calls
    \/ DrainStep
    \/ DrainEnd

\* The loop is sequential code: it takes its next pass as long as one is to
\* be taken, and ends when none is. The first is weak fairness of DrainStep,
\* with ENABLED <<DrainStep>>_v written out as its guard LoopGoesOn (every
\* pass unlinks a key); the second is weak fairness of DrainEnd.
SpecDrain ==
    /\ Init /\ [][NextDrain]_vars
    /\ []<>(~LoopGoesOn) \/ []<><<DrainStep>>_<<data, items, items_map>>
    /\ WF_vars(DrainEnd)

\* ------------------------------------------------------------ properties
\* The elements a sequence holds, and how often it holds x.
Range(seq) == {seq[i] : i \in 1 .. Len(seq)}
Count(seq, x) == Cardinality({i \in 1 .. Len(seq) : seq[i] = x})
\* The sequence without its elements in S, the order of the others kept.
Minus(seq, S) == SelectSeq(seq, LAMBDA x : x \notin S)
\* x is tracked in container s (lookup(x) does not fail).
Tracked(s, x) == x \in DOMAIN s.data
\* x has an ordering entry in container s.
HasEntry(s, x) == x \in DOMAIN s.items_map
\* The last call was d[key] = value.
WasSet == op.name = "setitem"

\* C1: in every state reachable from the empty container through set,
\* delete, pop, popitem, setdefault, update and clear, every tracked element
\* x has a tracked partner that maps back to it: lookup(lookup(x)) = x, so
\* that no half-pair exists.
C1_Involution ==
    \A x \in DOMAIN data : data[x] \in DOMAIN data /\ data[data[x]] = x

\* C1 witness: a set that took its key and its value out of two different
\* pairs left a container that tracks other elements besides the new pair.
C1_Witness ==
    /\ WasSet
    /\ op.key # op.value
    /\ Tracked(pre, op.key) /\ Tracked(pre, op.value)
    /\ pre.data[op.key] \notin {op.key, op.value}
    /\ pre.data[op.value] \notin {op.key, op.value}
    /\ op.key \in DOMAIN data

\* C2: right after set(k, v), whatever k and v were before, lookup(k) = v,
\* lookup(v) = k, iteration yields k exactly once and, when v # k, does not
\* yield v.
C2_SetInstallsPair ==
    WasSet =>
        /\ Tracked(Self, op.key) /\ data[op.key] = op.value
        /\ Tracked(Self, op.value) /\ data[op.value] = op.key
        /\ Count(iter(Self), op.key) = 1
        /\ op.value # op.key => Count(iter(Self), op.value) = 0

\* C2 witness: set(k, v) where k was the value side of one pair and v the
\* key side of another.
C2_Witness ==
    /\ WasSet
    /\ op.key # op.value
    /\ Tracked(pre, op.key) /\ ~HasEntry(pre, op.key)
    /\ HasEntry(pre, op.value) /\ pre.data[op.value] \notin {op.key, op.value}
    /\ data[op.key] = op.value

\* The items of container s once the entry of key `gone` is dropped and the
\* value of key k is v.
ItemsAfterTheft(s, k, v, gone) ==
    LET kept == Minus(iter(s), {gone})
    IN [i \in 1 .. Len(kept) |->
           <<kept[i], IF kept[i] = k THEN v ELSE s.data[kept[i]]>>]

\* C3: after set(k, v) the element paired with k before the call and the
\* element paired with v before the call are tracked no more (no slot, no
\* ordering entry, not iterated), unless that element is k or v itself.  As
\* in the example a->1, b->2, c->3, set(a, 2): when k is a key and v the
\* value of another key b, the items are the old ones without b's, with
\* (k, v) in the place of k's, and lookup(v) = k.
C3_OldPartnersDropped ==
    WasSet =>
        /\ \A x \in {op.key, op.value} \cap DOMAIN pre.data :
               pre.data[x] \notin {op.key, op.value} =>
                   /\ ~Tracked(Self, pre.data[x])
                   /\ ~HasEntry(Self, pre.data[x])
                   /\ pre.data[x] \notin Range(iter(Self))
        /\ ( /\ HasEntry(pre, op.key)
             /\ Tracked(pre, op.value) /\ ~HasEntry(pre, op.value)
             /\ pre.data[op.value] # op.key )
           => /\ get_items(Self) =
                     ItemsAfterTheft(pre, op.key, op.value, pre.data[op.value])
              /\ data[op.value] = op.key

\* C3 witness: the example's case: k was a key paired with another element
\* and v the value of another key, whose entry the call dropped.
C3_Witness ==
    /\ WasSet
    /\ HasEntry(pre, op.key) /\ pre.data[op.key] \notin {op.key, op.value}
    /\ Tracked(pre, op.value) /\ ~HasEntry(pre, op.value)
    /\ pre.data[op.value] # op.key
    /\ Len(iter(pre)) = 2
    /\ get_items(Self) = <<<<op.key, op.value>>>>

\* C4: d[k] = v2 where k has an ordering entry and v2 is not tracked leaves
\* the key sequence of iteration as it was: k stays in its place and so do
\* all the other keys.
C4_ValueUpdateKeepsOrder ==
    (WasSet /\ HasEntry(pre, op.key) /\ ~Tracked(pre, op.value))
        => iter(Self) = iter(pre)

\* C4 witness: such an update of a key that is not the last of several keys.
C4_Witness ==
    /\ WasSet
    /\ HasEntry(pre, op.key) /\ ~Tracked(pre, op.value)
    /\ Len(iter(pre)) >= 2
    /\ iter(pre)[Len(iter(pre))] # op.key
    /\ data[op.key] = op.value

\* The case of C5: v is a key with an ordering entry and a different key k2
\* is set to v.
KeyTheft == WasSet /\ HasEntry(pre, op.value) /\ op.key # op.value

\* C5 as stated: after a key theft v's ordering entry is gone, k2 is the
\* last key of iteration, lookup(v) = k2 and v is not iterated.
C5_Original ==
    KeyTheft =>
        /\ ~HasEntry(Self, op.value)
        /\ iter(Self)[Len(iter(Self))] = op.key
        /\ data[op.value] = op.key
        /\ op.value \notin Range(iter(Self))

\* C5 as amended: after a key theft v's ordering entry is gone, lookup(v) =
\* k2 and v is not iterated; k2 is the last key of iteration when it had no
\* ordering entry before the call, and when it had one it keeps its place:
\* iteration yields the keys of before without v.
C5_KeyTheft ==
    KeyTheft =>
        /\ ~HasEntry(Self, op.value)
        /\ data[op.value] = op.key
        /\ op.value \notin Range(iter(Self))
        /\ IF HasEntry(pre, op.key)
           THEN iter(Self) = Minus(iter(pre), {op.value})
           ELSE iter(Self)[Len(iter(Self))] = op.key

\* C5 witness: a key theft by a key that had no ordering entry, with another
\* key left in front of it.
C5_Witness ==
    /\ KeyTheft
    /\ ~HasEntry(pre, op.key)
    /\ Len(iter(Self)) >= 2
    /\ data[op.value] = op.key

\* The three structures of container s: the flat mapping, the ordered list
\* and the ordering index.
Structures(s) == <<s.data, s.items, s.items_map>>
\* The last call was del d[key] or d.pop(key[, default]).
WasDelete == op.name \in {"delitem", "pop"}

\* C6: delete(x) for a tracked x, given as the key side or as the value side
\* of its pair or as a self-pair, untracks x and its partner, takes len()
\* down by exactly 1 and leaves every other pair and the relative iteration
\* order of the other keys as they were.
C6_DeleteRemovesOnePair ==
    (WasDelete /\ Tracked(pre, op.key)) =>
        LET gone == {op.key, pre.data[op.key]}
        IN /\ ret.exc = NoExc
           /\ DOMAIN data = (DOMAIN pre.data) \ gone
           /\ \A y \in DOMAIN data : data[y] = pre.data[y]
           /\ len(Self) = len(pre) - 1
           /\ DOMAIN items_map = (DOMAIN pre.items_map) \ gone
           /\ iter(Self) = Minus(iter(pre), gone)

\* C6 witness: a pair deleted through its value side while two other keys
\* stay, one before and one after it.
C6_Witness ==
    /\ op.name = "delitem"
    /\ Tracked(pre, op.key) /\ ~HasEntry(pre, op.key)
    /\ Len(iter(pre)) = 3
    /\ iter(pre)[2] = pre.data[op.key]
    /\ Len(iter(Self)) = 2

\* C7: delete(k) and pop(k) on an untracked k fail with KeyError and
\* pop(k, default) on an untracked k returns default; in all three cases the
\* flat mapping, the ordered list and the ordering index are as before.
C7_AbsentKeyLeavesState ==
    (WasDelete /\ ~Tracked(pre, op.key)) =>
        /\ Structures(Self) = Structures(pre)
        /\ IF op.name = "pop" /\ op.value # RANDOM_OBJECT
           THEN ret.exc = NoExc /\ ret.value = op.value
           ELSE ret.exc = "KeyError"

\* C7 witness: pop(k, default) on an untracked k of a non-empty container
\* returned the default.
C7_Witness ==
    /\ op.name = "pop"
    /\ ~Tracked(pre, op.key)
    /\ op.value # RANDOM_OBJECT
    /\ ret.value = op.value
    /\ Len(iter(pre)) >= 2

\* The sequence seq without its i-th element.
DropAt(seq, i) == SubSeq(seq, 1, i - 1) \o SubSeq(seq, i + 1, Len(seq))

\* C8: in a non-empty state popitem(last=True) returns the last (key, value)
\* of items() and popitem(last=False) the first; afterwards items() is the
\* item sequence of before without exactly that element, the others in the
\* same order.
C8_PopitemTakesEnd ==
    (op.name = "popitem" /\ get_items(pre) # <<>>) =>
        LET before == get_items(pre)
            i == IF op.last THEN Len(before) ELSE 1
        IN /\ ret.exc = NoExc
           /\ ret.value = before[i]
           /\ get_items(Self) = DropAt(before, i)

\* C8 witness: popitem(last=False) took the first of three items, a pair of
\* two different elements.
C8_Witness ==
    /\ op.name = "popitem"
    /\ ~op.last
    /\ Len(get_items(pre)) = 3
    /\ ret.exc = NoExc
    /\ ret.value[1] # ret.value[2]
    /\ Len(get_items(Self)) = 2

\* C9: popitem() on a container that tracks nothing fails with KeyError and
\* leaves it empty, whether it was empty from construction, after clear, or
\* after deleting or popping every entry.
C9_PopitemOnEmpty ==
    (op.name = "popitem" /\ DOMAIN pre.data = {}) =>
        /\ ret.exc = "KeyError"
        /\ Structures(Self) = Structures(NewDict)

\* C9 witness: popitem() failed on a container that popitem had emptied.
C9_Witness ==
    /\ op.name = "popitem"
    /\ DOMAIN pre.data = {}
    /\ origin = "popitem"
    /\ ret.exc = "KeyError"

\* The container reached from s by d[key] = value for each pair of the
\* sequence pairs, one call after another.
RECURSIVE SetEach(_, _)
SetEach(s, pairs) ==
    IF pairs = <<>> THEN s
    ELSE SetEach(setitem(s, Head(pairs)[1], Head(pairs)[2]), Tail(pairs))

\* The last call was update(source) with one ordered source.
WasUpdate == op.name = "update" /\ Len(op.args) = 1
\* Its source.
Source == op.args[1]

\* update(source) left exactly the state of the one-by-one assignments.
UpdateIsSetEach ==
    /\ ret.exc = NoExc
    /\ Structures(Self) = Structures(SetEach(pre, Source))

\* Later assignments win: a pair whose key and value no later pair of the
\* source mentions is in the container.
LaterWins ==
    \A i \in 1 .. Len(Source) :
        (\A j \in (i + 1) .. Len(Source) :
             {Source[j][1], Source[j][2]} \cap {Source[i][1], Source[i][2]} = {})
        => /\ Tracked(Self, Source[i][1])
           /\ data[Source[i][1]] = Source[i][2]

\* The keys of the source in the order of their first assignment.
RECURSIVE FirstKeys(_)
FirstKeys(pairs) ==
    IF pairs = <<>> THEN <<>>
    ELSE LET front == FirstKeys(SubSeq(pairs, 1, Len(pairs) - 1))
             k == pairs[Len(pairs)][1]
         IN IF k \in Range(front) THEN front ELSE Append(front, k)

\* C10 as stated: update(source) leaves exactly the state of set(key, value)
\* for each pair in the source's order; later assignments win, the keys
\* present before the call keep their position and the new keys are
\* appended after them in source order.
C10_Original ==
    WasUpdate =>
        LET old == Range(iter(pre))
            new == Range(iter(Self)) \ old
        IN /\ UpdateIsSetEach
           /\ LaterWins
           /\ Minus(iter(Self), new) = Minus(iter(pre), old \ Range(iter(Self)))
           /\ iter(Self) = Minus(iter(Self), new) \o Minus(iter(Self), old)
           /\ Minus(iter(Self), old) = Minus(FirstKeys(Source), Elems \ new)

\* C10 as amended: update(source) leaves exactly the state of set(key,
\* value) for each pair in the source's order and later assignments win; at
\* each assignment (every set, those of a source included) a key that has
\* an ordering entry at that moment keeps its position and any other key is
\* appended at the end, behind the keys the assignment leaves in the list.
C10_UpdateIsSequentialSet ==
    /\ WasUpdate => (UpdateIsSetEach /\ LaterWins)
    /\ WasSet =>
           LET gone == (DOMAIN pre.items_map) \ (DOMAIN items_map)
           IN iter(Self) = Minus(iter(pre), gone)
                               \o (IF HasEntry(pre, op.key) THEN <<>> ELSE <<op.key>>)

\* C10 witness: an update whose second pair assigns the key of its first
\* pair again, on a container that already had that key and another one.
C10_Witness ==
    /\ WasUpdate
    /\ Len(Source) = 2
    /\ Source[1][1] = Source[2][1]
    /\ Source[1][2] # Source[2][2]
    /\ HasEntry(pre, Source[1][1])
    /\ Len(iter(pre)) >= 2
    /\ data[Source[2][1]] = Source[2][2]

\* The last call was update(first, second).
WasUpdateArgs == op.name = "update" /\ Len(op.args) > 1

\* C11: update() handed more than one positional source fails with a
\* TypeError and assigns nothing.
C11_UpdateArgsRaise ==
    WasUpdateArgs => (ret.exc = "TypeError" /\ Structures(Self) = Structures(pre))

\* C11 witness: an update with two non-empty sources has returned.
C11_Witness ==
    /\ WasUpdateArgs
    /\ op.args[1] # <<>>
    /\ op.args[2] # <<>>
    /\ DOMAIN pre.data # {}

\* The last call was update(other) with another two-way container.
WasUpdateOther == op.name = "update_other"
\* The container TwoWayOrderedDict(source) the last call was handed.
Other == init(op.args, <<>>)

\* C12: update(other) with another two-way container succeeds and leaves
\* the state of set(k, other[k]) for every key k of other, in other's
\* iteration order.
C12_UpdateFromOther ==
    WasUpdateOther =>
        /\ ret.exc = NoExc
        /\ Structures(Self) = Structures(SetEach(pre, get_items(Other)))

\* C12 witness: an update from a container that holds two pairs has
\* returned, on a container that held a pair of its own.
C12_Witness ==
    /\ WasUpdateOther
    /\ len(Other) = 2
    /\ DOMAIN pre.data # {}

\* The last call was d == other.
WasEq == op.name = "eq"

\* C13: equals(a, b) is true exactly when b is a two-way container whose
\* ordered item sequence is that of a; containers holding the same pairs in
\* a different insertion order are not equal.
C13_EqualsIsOrdered ==
    WasEq => (ret.value = (get_items(pre) = get_items(Other)))

\* C13 witness: two containers that hold the same two items in a different
\* order have been compared.
C13_Witness ==
    /\ WasEq
    /\ Len(get_items(pre)) = 2
    /\ Range(get_items(pre)) = Range(get_items(Other))
    /\ get_items(pre) # get_items(Other)

\* The last call was d.copy().
WasCopy == op.name = "copy"

\* C14: copy() returns a new container with the item sequence and the
\* tracked set of the original, equal to the original; the original is
\* left as it was.
C14_CopyIsEqual ==
    WasCopy =>
        /\ ret.exc = NoExc
        /\ ret.value.exc = NoExc
        /\ get_items(ret.value) = get_items(pre)
        /\ DOMAIN ret.value.data = DOMAIN pre.data
        /\ eq(pre, ret.value)
        /\ eq(ret.value, pre)
        /\ Structures(Self) = Structures(pre)

\* C14 witness: a copy has been made of a container that holds a pair of
\* two elements before a self-pair.
C14_Witness ==
    /\ WasCopy
    /\ Len(iter(pre)) = 2
    /\ pre.data[iter(pre)[1]] # iter(pre)[1]
    /\ pre.data[iter(pre)[2]] = iter(pre)[2]
    /\ len(ret.value) = 2

\* C15: setdefault(k, default) on a k tracked on either side returns
\* lookup(k) and leaves the container as it is; on an untracked k it does
\* set(k, default), returns default, and k is the last key of iteration.
C15_SetDefault ==
    op.name = "setdefault" =>
        /\ ret.exc = NoExc
        /\ IF Tracked(pre, op.key)
           THEN /\ ret.value = pre.data[op.key]
                /\ Structures(Self) = Structures(pre)
           ELSE /\ ret.value = op.value
                /\ Structures(Self) = Structures(setitem(pre, op.key, op.value))
                /\ data[op.key] = op.value
                /\ iter(Self)[Len(iter(Self))] = op.key

\* C15 witness: setdefault has been called with a key tracked only as the
\* value side of a pair and a default other than its partner.
C15_Witness ==
    /\ op.name = "setdefault"
    /\ Tracked(pre, op.key)
    /\ ~HasEntry(pre, op.key)
    /\ pre.data[op.key] # op.value
    /\ ret.value = pre.data[op.key]

\* C16: after clear() the container is that of a new one: len() is 0,
\* forward and reverse iteration yield nothing, no element is tracked and,
\* the three structures being those of a new container, every following
\* call gives what it gives on a new container.
C16_ClearIsFresh ==
    op.name = "clear" =>
        /\ ret.exc = NoExc
        /\ len(Self) = 0
        /\ iter(Self) = <<>>
        /\ reversed(Self) = <<>>
        /\ \A x \in Elems : ~Tracked(Self, x)
        /\ Self = NewDict
        /\ \A k \in Elems, v \in Elems :
               /\ setitem(Self, k, v) = setitem(NewDict, k, v)
               /\ setdefault(Self, k, v) = setdefault(NewDict, k, v)
               /\ pop(Self, k, v) = pop(NewDict, k, v)
               /\ delitem(Self, k) = delitem(NewDict, k)
        /\ popitem(Self, TRUE) = popitem(NewDict, TRUE)

\* C16 witness: clear() has been called on a container with two keys, one
\* of them in a pair of two elements.
C16_Witness ==
    /\ op.name = "clear"
    /\ Len(iter(pre)) = 2
    /\ Cardinality(DOMAIN pre.data) = 3
    /\ DOMAIN data = {}

\* C17: each view contains exactly what its own iteration yields: keys()
\* contains x exactly when x has an ordering entry (an element tracked only
\* as the value side of a pair is not contained), values() contains x
\* exactly when x is the value of an item, and items() contains a pair
\* exactly when it is a (key, value) item in that orientation.
C17_ViewsContainWhatTheyYield ==
    \A x \in Elems :
        /\ keys_contains(Self, x) <=> x \in Range(keys_iter(Self))
        /\ keys_contains(Self, x) <=> HasEntry(Self, x)
        /\ values_contains(Self, x) <=> x \in Range(values_iter(Self))
        /\ (Tracked(Self, x) /\ ~HasEntry(Self, x)) => ~keys_contains(Self, x)
        /\ (HasEntry(Self, x) /\ data[x] # x) => ~values_contains(Self, x)
        /\ \A y \in Elems :
               items_contains(Self, <<x, y>>) <=> <<x, y>> \in Range(items_iter(Self))

\* C17 witness: the call that returned left a pair of two elements, so one
\* of them is tracked only as a value.
C17_Witness ==
    /\ ~Idle
    /\ \E x \in DOMAIN data : ~HasEntry(Self, x) /\ x \in Range(values_iter(Self))

\* The sequence seq last element first.
Reverse(seq) == [i \in 1 .. Len(seq) |-> seq[Len(seq) + 1 - i]]

\* C18: reverse iteration yields the keys of forward iteration in reversed
\* order, and forward iteration yields the keys in the order their entries
\* were appended: a call leaves the keys whose entries it keeps in the order
\* they had and puts the key whose entry it appends behind them.
C18_ReverseIsForwardReversed ==
    /\ reversed(Self) = Reverse(iter(Self))
    /\ LET gone == (DOMAIN pre.items_map) \ (DOMAIN items_map)
           new == (DOMAIN items_map) \ (DOMAIN pre.items_map)
       IN /\ Cardinality(new) <= 1
          /\ iter(Self) = Minus(iter(pre), gone)
                              \o (IF new = {} THEN <<>> ELSE <<CHOOSE k \in new : TRUE>>)

\* C18 witness: a set has appended a third key and unlinked none.
C18_Witness ==
    /\ WasSet
    /\ Len(iter(pre)) = 2
    /\ Len(iter(Self)) = 3
    /\ reversed(Self) = <<op.key, iter(pre)[2], iter(pre)[1]>>

\* The case of C19: set(x, x) for an untracked x.
SelfPairAdded == WasSet /\ op.key = op.value /\ ~Tracked(pre, op.key)

\* C19: set(x, x) for an untracked x adds exactly one slot and one ordering
\* entry, and a following delete(x) restores exactly the state of before.
C19_SelfPairRoundTrip ==
    SelfPairAdded =>
        /\ ret.exc = NoExc
        /\ DOMAIN data = DOMAIN pre.data \cup {op.key}
        /\ DOMAIN items_map = DOMAIN pre.items_map \cup {op.key}
        /\ len(Self) = len(pre) + 1
        /\ data[op.key] = op.key
        /\ \A x \in DOMAIN pre.data : data[x] = pre.data[x]
        /\ delitem(Self, op.key).exc = NoExc
        /\ Structures(delitem(Self, op.key)) = Structures(pre)

\* C19 witness: a self-pair has been added to a container that held a pair
\* of two elements.
C19_Witness ==
    /\ SelfPairAdded
    /\ Cardinality(DOMAIN pre.data) = 2
    /\ len(pre) = 1
    /\ Cardinality(DOMAIN data) = 3

\* The pairs {K, V} container s tracks, and its elements paired with
\* themselves.
TrackedPairs(s) == {{x, s.data[x]} : x \in DOMAIN s.data}
SelfPairs(s) == {x \in DOMAIN s.data : s.data[x] = x}

\* Every pair has exactly one ordering entry, len() is the number of pairs
\* and the slots number 2 * len() less the self-pairs.
SlotCounting ==
    /\ DOMAIN items_map \subseteq DOMAIN data
    /\ \A P \in TrackedPairs(Self) : Cardinality(P \cap DOMAIN items_map) = 1
    /\ len(Self) = Cardinality(TrackedPairs(Self))
    /\ Len(iter(Self)) = len(Self)
    /\ Cardinality(DOMAIN data) = 2 * len(Self) - Cardinality(SelfPairs(Self))

\* C20 as stated: every tracked pair has exactly one ordering entry, len()
\* is the number of pairs, the slots number 2 * len() less the self-pairs,
\* and len() is never the slot count (of a container that is not empty).
C20_Original ==
    /\ SlotCounting
    /\ DOMAIN data # {} => len(Self) # Cardinality(DOMAIN data)

\* C20 as amended: every tracked pair has exactly one ordering entry, len()
\* is the number of pairs and the slots number 2 * len() less the
\* self-pairs; len() is the slot count exactly when every pair is a
\* self-pair.
C20_SlotCounting ==
    /\ SlotCounting
    /\ len(Self) = Cardinality(DOMAIN data) <=> SelfPairs(Self) = DOMAIN data

\* C20 witness: a call has left a self-pair and a pair of two elements.
C20_Witness ==
    /\ ~Idle
    /\ Cardinality(SelfPairs(Self)) = 1
    /\ len(Self) = 2
    /\ Cardinality(DOMAIN data) = 3

\* The addresses of the nodes that hold a key (all but the sentinel).
KeyNodes == (DOMAIN items) \ {ItemsRef}

\* C21: the ordering index and the circular list agree: the index keys are
\* the keys the list nodes hold, every key is held by exactly one node,
\* every indexed node is the one reached in the list, n.next.prev = n and
\* n.prev.next = n for every node n, the sentinel included, and a forward
\* traversal from sentinel.next is back at the sentinel after exactly len()
\* steps.
C21_IndexAndListAgree ==
    /\ DOMAIN items_map = {items[r][KEY] : r \in KeyNodes}
    /\ \A r1 \in KeyNodes, r2 \in KeyNodes :
           items[r1][KEY] = items[r2][KEY] => r1 = r2
    /\ \A k \in DOMAIN items_map :
           /\ items_map[k] \in KeyNodes
           /\ items[items_map[k]][KEY] = k
           /\ Count(iter(Self), k) = 1
    /\ \A n \in DOMAIN items :
           /\ items[n][NEXT] \in DOMAIN items
           /\ items[n][PREV] \in DOMAIN items
           /\ items[items[n][NEXT]][PREV] = n
           /\ items[items[n][PREV]][NEXT] = n
    /\ Len(iter(Self)) = len(Self)
    /\ LET last == IF iter(Self) = <<>> THEN ItemsRef
                   ELSE items_map[iter(Self)[Len(iter(Self))]]
       IN items[last][NEXT] = ItemsRef

\* C21 witness: a call has unlinked the middle one of three keys.
C21_Witness ==
    /\ ~Idle
    /\ Len(iter(pre)) = 3
    /\ iter(Self) = <<iter(pre)[1], iter(pre)[3]>>

\* C22: an update call that fails leaves none of its assignments behind:
\* the flat mapping, the list and the index are those of before the call.
C22_NoPartialFailure ==
    (op.name = "update_bad" /\ ret.exc # NoExc) => Structures(Self) = Structures(pre)

\* C22 witness: an update has failed at the second element of its source,
\* behind a pair that assigns an untracked key.
C22_Witness ==
    /\ op.name = "update_bad"
    /\ ret.exc = "ValueError"
    /\ Len(op.args[1]) = 2
    /\ Len(op.args[1][1]) = 2
    /\ ~Tracked(pre, op.args[1][1][1])

\* C23: set(k, v) never fails, whatever k and v are to the container
\* (untracked, a key, a value, self-paired, k = v, v the partner of k): no
\* lookup, slot retraction or entry removal inside it hits a missing
\* element, and no entry is appended for a key that has one: the key is
\* iterated exactly once and the list is as long as the index.
C23_SetNeverFails ==
    WasSet =>
        /\ ret.exc = NoExc
        /\ retract_key(pre, op.key).exc = NoExc
        /\ retract_value(retract_key(pre, op.key), op.key, op.value).exc = NoExc
        /\ Count(iter(Self), op.key) = 1
        /\ Len(iter(Self)) = len(Self)
        /\ HasEntry(pre, op.key) => Len(iter(Self)) <= Len(iter(pre))

\* C23 witness: a set has joined the value side of one pair, as key, to the
\* key side of another pair, as value.
C23_Witness ==
    /\ WasSet
    /\ ret.exc = NoExc
    /\ Tracked(pre, op.key) /\ ~HasEntry(pre, op.key)
    /\ HasEntry(pre, op.value)
    /\ pre.data[op.key] # op.value
    /\ pre.data[op.value] # op.value

\* The container is empty: nothing is tracked, the list holds the sentinel
\* alone and the index is empty.
Drained == DOMAIN data = {} /\ items = EmptyItems /\ DOMAIN items_map = {}

\* C24: from any reachable state the loop `while the container is
\* non-empty: popitem()` ends after exactly len() passes: every popitem of
\* the loop succeeds and takes len() down by exactly 1, and the loop, once
\* begun, reaches the state where nothing is tracked and the flat mapping,
\* the list and the index are empty, and ends there.
C24_DrainTerminates ==
    /\ [](Draining => (ret.exc = NoExc /\ len(Self) = len(pre) - 1))
    /\ Draining ~> (Draining /\ Drained)
    /\ Draining ~> (Idle /\ Drained)

\* C24 witness: the loop has taken its last pass on a container that held
\* one pair of two elements.
C24_Witness ==
    /\ Draining
    /\ len(pre) = 1
    /\ Cardinality(DOMAIN pre.data) = 2
    /\ Drained

\* The reference model: an ordered list of pairs no two of which share an
\* element.  Pair p holds element x.
Holds(p, x) == p[1] = x \/ p[2] = x
\* The elements of its pairs.
ElementsOf(L) == UNION {{L[i][1], L[i][2]} : i \in 1 .. Len(L)}
\* set(k, v) on the reference list L: every pair holding k or v goes, but a
\* pair whose left element is k is replaced in place by (k, v); without
\* such a pair (k, v) is appended at the end.
RECURSIVE RefReplace(_, _, _)
RefReplace(L, k, v) ==
    IF L = <<>> THEN <<>>
    ELSE (IF Head(L)[1] = k THEN <<<<k, v>>>>
          ELSE IF Holds(Head(L), k) \/ Holds(Head(L), v) THEN <<>>
          ELSE <<Head(L)>>) \o RefReplace(Tail(L), k, v)
RefSet(L, k, v) ==
    IF \E i \in 1 .. Len(L) : L[i][1] = k
    THEN RefReplace(L, k, v)
    ELSE Append(SelectSeq(L, LAMBDA p : ~(Holds(p, k) \/ Holds(p, v))), <<k, v>>)
\* delete(x) on the reference list L: the pair holding x goes.
RefDelete(L, x) == SelectSeq(L, LAMBDA p : ~Holds(p, x))

\* C25: for every sequence of set and delete from the empty container
\* items() is the list of the reference model and the tracked elements are
\* the elements of its pairs: the two are equal in the new container and
\* every set and every delete takes equal lists to equal lists.
C25_RefinesPairList ==
    /\ DOMAIN data = ElementsOf(get_items(Self))
    /\ \A i \in 1 .. len(Self), j \in 1 .. len(Self) :
           i # j => {get_items(Self)[i][1], get_items(Self)[i][2]}
                        \cap {get_items(Self)[j][1], get_items(Self)[j][2]} = {}
    /\ op.name = "init" => get_items(Self) = <<>>
    /\ WasSet => get_items(Self) = RefSet(get_items(pre), op.key, op.value)
    /\ op.name = "delitem" =>
           /\ get_items(Self) = RefDelete(get_items(pre), op.key)
           /\ ret.exc = IF op.key \in ElementsOf(get_items(pre)) THEN NoExc ELSE "KeyError"

\* C25 witness: a set has replaced a pair in place, in the middle of three,
\* and removed the pair behind it that held the new value.
C25_Witness ==
    /\ WasSet
    /\ Len(get_items(pre)) = 3
    /\ get_items(pre)[2][1] = op.key
    /\ Holds(get_items(pre)[3], op.value)
    /\ get_items(Self) = <<get_items(pre)[1], <<op.key, op.value>>>>

====
